---- MODULE Spec2Model ----
(***************************************************************************)
(* A model of RenphoWeight (custom_components/renpho/api_renpho.py): the   *)
(* authenticated HTTP client, its data fetchers, the metric accessor and   *)
(* the poll loop.                                                          *)
(*                                                                         *)
(* The client object is the record `self`; its fields carry the names of   *)
(* the Python attributes.  Every coroutine that is running (a poll loop    *)
(* task, or a call made by the host) has a frame in `frames`.  asyncio is  *)
(* cooperative: a coroutine runs without interruption from one suspension  *)
(* point (an await on the network or on a timer) to the next, so every     *)
(* action below resumes one coroutine at its suspension point and runs the *)
(* code up to the next one, through every call and return on the way.      *)
(* The operators that do this take and return a "world" w, the record      *)
(* [self |-> the client, fr |-> the frames].  `last` records the call of    *)
(* start_polling or stop_polling that the host made in the last step, and  *)
(* how that call found the poller.                                         *)
(***************************************************************************)
EXTENDS Integers, Sequences, FiniteSets, TLC

VARIABLES self, frames, last, obs

vars == <<self, frames, last, obs>>

\* ------------------------------------------------------------------ values

\* Python's None in an attribute that otherwise holds a string or a number.
\* Numbers that the code only compares with None and 0.0 (weights, girth and
\* goal values) are written as strings, "0" for zero; timestamps are integers
None == "None"

\* Python's None in an attribute that otherwise holds a parsed object
NoneObject == [none |-> TRUE]

\* Python's None in an attribute that otherwise holds a list of parsed objects
NoneList == <<NoneObject>>

\* what the host sees of a returned object or list that is not None
Data == "data"

\* an attribute that was never assigned (polling_task before start_polling)
Unset == "Unset"

\* a value of time.time()
Stamp == "time"

\* CONF_PUBLIC_KEY, the fixed PEM key
CONF_PUBLIC_KEY == "PEM"

\* the value of METRIC_TYPE_WEIGHT
METRIC_TYPE_WEIGHT == "weight"

\* the value of METRIC_TYPE_GIRTH
METRIC_TYPE_GIRTH == "girth"

\* the value of METRIC_TYPE_GIRTH_GOAL
METRIC_TYPE_GIRTH_GOAL == "girth_goals"

\* retries: int = 3, the default budget of _request
DefaultRetries == 3

\* range(3), the sign-in attempts of auth
AuthAttempts == 3

\* the exceptions a call can end with
Exceptions == {"AuthenticationError", "APIError", "AttributeError", "TimeoutError"}

\* ------------------------------------------------------------------ processes

\* the coroutines of the host (sensor updates, the config flow)
Hosts == {"h1", "h2"}

\* the slots for poll loop tasks created by start_polling
Tasks == {"t1", "t2"}

Procs == Hosts \cup Tasks

\* the frame of a coroutine that is not running
IdleFrame(pc) ==
    [pc |-> pc, op |-> "none", fetcher |-> "none", retries |-> 0, skip_auth |-> TRUE,
     attempt |-> 0, authFrom |-> "none", metric_type |-> "none", metric |-> "none",
     cancel |-> FALSE, ret |-> "none", exit |-> "none",
     expired |-> FALSE, reauths |-> 0,
     sends |-> 0, posts |-> 0, probed |-> FALSE, aprobed |-> FALSE,
     invoked |-> {}, url_token |-> "none", url_user |-> "none"]

\* what one step of a coroutine shows of the calls inside it: the coroutine,
\* the request that was answered (on: "sign_in" or "data"), the response it
\* received (got, msg, key, id), how auth ended in this step
\* (auth) with the token, the user id and the number of sign-in POSTs of that
\* call at that moment, how _request ended in this step (req), and what
\* check_proxy returned in this step (probe), and what is_valid_session
\* returned in this step (valid), and the user_id argument of the
\* get_specific_metric call made in this step (uid).  "none"
\* where the step has nothing of the kind
NoObs ==
    [proc |-> "none", on |-> "none", got |-> "none", msg |-> "none", key |-> "none", id |-> "none",
     auth |-> "none", auth_token |-> "none", auth_user |-> "none", auth_posts |-> 0,
     req |-> "none", probe |-> "none", valid |-> "none", uid |-> "none",
     sent |-> "none", held |-> "none", cleared |-> "none"]

\* ------------------------------------------------------------------ __init__

Construct(email, password, user_id, refresh) ==
    [public_key |-> CONF_PUBLIC_KEY,
     email |-> email,
     password |-> password,
     user_id |-> IF user_id = "" THEN None ELSE user_id,
     refresh |-> refresh,
     token |-> None,
     weight_info |-> NoneObject,
     weight_history |-> <<>>,
     weight |-> None,
     device_info |-> NoneList,
     latest_model |-> NoneObject,
     girth_info |-> NoneList,
     girth_goal |-> NoneList,
     growth_record |-> NoneObject,
     users |-> <<>>,
     last_updated_weight |-> None,
     last_updated_girth |-> None,
     last_updated_girth_goal |-> None,
     last_updated_growth_record |-> None,
     auth_in_progress |-> FALSE,
     is_polling_active |-> FALSE,
     polling_task |-> Unset,
     session |-> None]

\* ------------------------------------------------------------------ returns to the caller

\* the end of a call made by the host: the host observes val, a value or an
\* exception
TopDone(w, p, val) ==
    [w EXCEPT !.fr[p] = [IdleFrame("idle") EXCEPT
                            !.op = w.fr[p].op,
                            !.metric_type = w.fr[p].metric_type,
                            !.metric = w.fr[p].metric,
                            !.ret = val]]

\* polling_loop leaves its try statement: "Polling loop exited." (lines 645-650).
\* reason is "cancelled" (line 645), "error" (line 647) or "stopped" (the while
\* condition is false)
LoopExit(w, p, reason) ==
    [w EXCEPT !.fr[p] = [IdleFrame("done") EXCEPT !.op = "polling_loop", !.exit = reason,
                                                   !.invoked = w.fr[p].invoked]]

\* await asyncio.sleep(self.refresh_interval), line 644: __init__ stores the
\* interval as self.refresh and nothing assigns self.refresh_interval, so the
\* argument raises AttributeError, which line 647 catches outside the while
LoopSleep(w, p) ==
    IF "refresh_interval" \in DOMAIN w.self
    THEN [w EXCEPT !.fr[p].pc = "loop_sleep", !.fr[p].fetcher = "none"]
    ELSE LoopExit(w, p, "error")

\* ------------------------------------------------------------------ fetchers, entry

\* the fetchers whose URL is built from self.user_id and self.token alone
PlainFetchers ==
    {"get_scale_users", "get_measurements", "get_device_info", "list_girth",
     "list_girth_goal", "list_growth_record", "message_list", "request_user", "reach_goal"}

Fetchers == PlainFetchers \cup {"list_latest_model"}

\* _request up to its first await: await self.check_proxy(), line 156
RequestEnter(w, p, f) ==
    [w EXCEPT !.fr[p].fetcher = f,
              !.fr[p].retries = DefaultRetries,
              !.fr[p].skip_auth = TRUE,
              !.fr[p].expired = FALSE,
              !.fr[p].reauths = 0,
              !.fr[p].sends = 0,
              !.fr[p].probed = FALSE,
              !.fr[p].pc = "req_probe"]

\* a fetcher up to its first await: the URL is built before the try statement
\* with self.user_id and self.token as they are then (user_id and
\* terminal_user_session_key, line 339);
\* list_latest_model reads self.weight_info.internal_model there (line 415)
FetcherEnter(w, p, f) ==
    IF f = "list_latest_model" /\ w.self.weight_info = NoneObject
    THEN TopDone(w, p, "AttributeError")
    ELSE RequestEnter([w EXCEPT !.fr[p].invoked = @ \cup {f},
                                !.fr[p].url_token = w.self.token,
                                !.fr[p].url_user = w.self.user_id], p, f)

\* get_info, lines 379-381
GetInfoEnter(w, p) ==
    FetcherEnter([w EXCEPT !.self.last_updated_weight = Stamp], p, "get_measurements")

\* get_weight, lines 373-377: the cached pair when self.weight and
\* self.weight_info are both truthy (a weight of 0 is not), otherwise the
\* timestamp is written and get_measurements is awaited; the host is handed
\* the pair whose second member is what get_measurements returned
GetWeightEnter(w, p) ==
    IF w.self.weight \notin {None, "0"} /\ w.self.weight_info # NoneObject
    THEN TopDone(w, p, Data)
    ELSE FetcherEnter([w EXCEPT !.self.last_updated_weight = Stamp], p, "get_measurements")

\* polling_loop from the top of its while statement (lines 642-643) into
\* poll_data and its first fetch, get_info (line 617)
LoopTop(w, p) ==
    IF w.self.is_polling_active
    THEN GetInfoEnter([w EXCEPT !.fr[p].invoked = {}], p)
    ELSE LoopExit(w, p, "stopped")

\* ------------------------------------------------------------------ metric accessor

\* getattr(g, name, default) / g.get(name, default) on a parsed entry
GetAttr(g, name, default) == IF name \in DOMAIN g THEN g[name] ELSE default

\* sorted(seq, key=lambda x: x[key], reverse=True): the sort is stable, so
\* entries with equal keys keep their order
RECURSIVE SortedDesc(_, _)
SortedDesc(seq, key) ==
    IF seq = <<>> THEN <<>>
    ELSE LET i == CHOOSE i \in 1..Len(seq) :
                    /\ \A j \in 1..Len(seq) : seq[j][key] <= seq[i][key]
                    /\ \A j \in 1..(i - 1) : seq[j][key] < seq[i][key]
             rest == [j \in 1..(Len(seq) - 1) |-> IF j < i THEN seq[j] ELSE seq[j + 1]]
         IN <<seq[i]>> \o SortedDesc(rest, key)

\* value not in (None, 0.0)
IsReading(v) == v \notin {None, "0"}

\* the girth branch without the filter of line 588: the newest entry decides
GirthValueUnfiltered(girth_info, metric) ==
    GetAttr(SortedDesc(girth_info, "time_stamp")[1], metric \o "_value", None)

\* lines 588-593: the girth branch once self.girth_info is a non-empty list
GirthValue(girth_info, metric) ==
    LET name == metric \o "_value"
        valid_girths == SortedDesc(SelectSeq(girth_info,
                            LAMBDA g : IsReading(GetAttr(g, name, "0"))), "time_stamp")
    IN IF valid_girths = <<>> THEN None ELSE GetAttr(valid_girths[1], name, None)

\* the girth goal branch sorted in ascending order: the oldest goal decides
GirthGoalValueOldest(girth_goal, metric) ==
    LET valid_goals == SortedDesc(SelectSeq(girth_goal,
                            LAMBDA g : g.girth_type = metric /\ IsReading(g.goal_value)),
                            "setup_goal_at")
    IN IF valid_goals = <<>> THEN None ELSE valid_goals[Len(valid_goals)].goal_value

\* lines 598-603: the girth goal branch once self.girth_goal is a non-empty list
GirthGoalValue(girth_goal, metric) ==
    LET valid_goals == SortedDesc(SelectSeq(girth_goal,
                            LAMBDA g : g.girth_type = metric /\ IsReading(g.goal_value)),
                            "setup_goal_at")
    IN IF valid_goals = <<>> THEN None ELSE valid_goals[1].goal_value

\* the weight branch answering from nothing
WeightValueAbsent(c, metric) == None

\* lines 580-583: the weight branch
WeightValue(c, metric) ==
    IF c.weight_info # NoneObject THEN GetAttr(c.weight_info, metric, None) ELSE None

\* lines 587-593 and 597-603: get_specific_metric from the point where the
\* cache has been fetched or found; an absent or empty cache falls out of the
\* if statement and the coroutine returns None
MetricAnswer(w, p) ==
    LET c == w.self
        t == w.fr[p].metric_type
        m == w.fr[p].metric
    IN IF t = METRIC_TYPE_GIRTH
       THEN TopDone(w, p, IF c.girth_info \notin {NoneList, <<>>}
                          THEN GirthValue(c.girth_info, m) ELSE None)
       ELSE TopDone(w, p, IF c.girth_goal \notin {NoneList, <<>>}
                          THEN GirthGoalValue(c.girth_goal, m) ELSE None)

\* a girth cache that also counts as missing when the list is empty
NoGirthCacheOrEmpty(c) == c.last_updated_girth = None \/ c.girth_info \in {NoneList, <<>>}

\* line 585: no girth list has been fetched yet
NoGirthCache(c) == c.last_updated_girth = None \/ c.girth_info = NoneList

\* line 595: no girth goal list has been fetched yet
NoGoalCache(c) == c.last_updated_girth_goal = None \/ c.girth_goal = NoneList

\* get_specific_metric up to its first await or its return, lines 575-606
MetricEnter(w0, p, metric_type, metric, user_id) ==
    LET w1 == IF user_id \notin {None, ""} THEN [w0 EXCEPT !.self.user_id = user_id] ELSE w0
        w == [w1 EXCEPT !.ob.proc = p, !.ob.uid = user_id,
                        !.fr[p].op = "get_specific_metric",
                        !.fr[p].metric_type = metric_type,
                        !.fr[p].metric = metric,
                        !.fr[p].ret = "none"]
        c == w.self
    IN CASE metric_type = METRIC_TYPE_WEIGHT -> TopDone(w, p, WeightValue(c, metric))
         [] metric_type = METRIC_TYPE_GIRTH ->
                IF NoGirthCache(c)
                THEN FetcherEnter(w, p, "list_girth")
                ELSE MetricAnswer(w, p)
         [] metric_type = METRIC_TYPE_GIRTH_GOAL ->
                IF NoGoalCache(c)
                THEN FetcherEnter(w, p, "list_girth_goal")
                ELSE MetricAnswer(w, p)
         [] OTHER -> TopDone(w, p, None)

\* ------------------------------------------------------------------ fetchers, after _request

\* poll_data giving up at the first fetch that returns None
FetcherDoneStopsAtFailure(w, p, val) ==
    CASE w.fr[p].op = "polling_loop" ->
            CASE val = None -> LoopSleep(w, p)
              [] w.fr[p].fetcher = "get_measurements" -> FetcherEnter(w, p, "list_girth")
              [] w.fr[p].fetcher = "list_girth" -> FetcherEnter(w, p, "list_girth_goal")
              [] OTHER -> LoopSleep(w, p)
      [] w.fr[p].op = "get_specific_metric" -> MetricAnswer(w, p)
      [] OTHER -> TopDone(w, p, val)

\* a fetcher returns val: to the host, to get_specific_metric, or to poll_data,
\* which goes on to its next fetch (lines 616-620).  After the third fetch
\* asyncio.gather is handed the three results, none of them awaitable, and
\* raises TypeError, which line 623 catches; polling_loop then sleeps
FetcherDone(w, p, val) ==
    CASE w.fr[p].op = "polling_loop" ->
            CASE w.fr[p].fetcher = "get_measurements" -> FetcherEnter(w, p, "list_girth")
              [] w.fr[p].fetcher = "list_girth" -> FetcherEnter(w, p, "list_girth_goal")
              [] OTHER -> LoopSleep(w, p)
      [] w.fr[p].op = "get_specific_metric" -> MetricAnswer(w, p)
      [] OTHER -> TopDone(w, p, val)

\* get_measurements, lines 343-371, on the body that _request returned
MeasurementsPost(w, p, body) ==
    IF body.status_code = "20000" /\ body.data \notin {NoneList, <<>>}
    THEN FetcherDone([w EXCEPT !.self.weight_history = body.data,
                               !.self.weight_info = body.data[1],
                               !.self.weight = body.data[1].weight,
                               !.self.last_updated_weight = Stamp], p, Data)
    ELSE FetcherDone(w, p, None)

\* get_device_info, lines 391-409
DeviceInfoPost(w, p, body) ==
    IF body.status_code = "20000" /\ body.data # NoneList
    THEN FetcherDone([w EXCEPT !.self.device_info = body.data], p, Data)
    ELSE FetcherDone(w, p, None)

\* list_latest_model, lines 419-431
LatestModelPost(w, p, body) ==
    IF body.status_code = "20000"
    THEN FetcherDone([w EXCEPT !.self.latest_model = body], p, Data)
    ELSE FetcherDone(w, p, None)

\* list_girth dropping the token when the body has no girths list
GirthPostDropsToken(w, p, body) ==
    IF body.status_code = "20000" /\ body.data # NoneList
    THEN FetcherDone([w EXCEPT !.self.last_updated_girth = Stamp,
                               !.self.girth_info = body.data], p, Data)
    ELSE FetcherDone([w EXCEPT !.self.token = None], p, None)

\* list_girth, lines 438-453; GirthResponse(**parsed) needs the girths list
GirthPost(w, p, body) ==
    IF body.status_code = "20000" /\ body.data # NoneList
    THEN FetcherDone([w EXCEPT !.self.last_updated_girth = Stamp,
                               !.self.girth_info = body.data], p, Data)
    ELSE FetcherDone(w, p, None)

\* list_girth_goal, lines 463-477; GirthGoalsResponse(**parsed) needs the
\* girth_goals list
GirthGoalPost(w, p, body) ==
    IF body.status_code = "20000" /\ body.data # NoneList
    THEN FetcherDone([w EXCEPT !.self.girth_goal = body.data,
                               !.self.last_updated_girth_goal = Stamp], p, Data)
    ELSE FetcherDone(w, p, None)

\* list_growth_record, lines 488-501
GrowthRecordPost(w, p, body) ==
    IF body.status_code = "20000"
    THEN FetcherDone([w EXCEPT !.self.growth_record = body,
                               !.self.last_updated_growth_record = Stamp], p, Data)
    ELSE FetcherDone(w, p, None)

\* message_list, request_user, reach_goal: lines 511-521, 531-541, 552-562
PlainPost(w, p, body) ==
    IF body.status_code = "20000" THEN FetcherDone(w, p, Data) ELSE FetcherDone(w, p, None)

\* get_scale_users, lines 311-333: self.users[0] raises IndexError on an empty
\* list, which line 331 catches
ScaleUsersPost(w, p, body) ==
    LET users == IF body.data # NoneList THEN body.data ELSE w.self.users
    IN IF users = <<>>
       THEN FetcherDone([w EXCEPT !.self.users = users], p, Data)
       ELSE FetcherDone([w EXCEPT !.self.users = users,
                                  !.self.user_id = users[1].user_id], p, Data)

\* _request ends: res names an exception, or is None (the while loop ran out),
\* or is "body" and body is the parsed response.  Every fetcher catches Exception and returns None
\* (get_scale_users returns an empty list or an empty Users object)
RequestDone(w0, p, res, body) ==
    LET f == w0.fr[p].fetcher
        w == [w0 EXCEPT !.fr[p].retries = 0, !.fr[p].skip_auth = TRUE,
                        !.fr[p].attempt = 0, !.fr[p].authFrom = "none",
                        !.fr[p].expired = FALSE, !.fr[p].reauths = 0,
                        !.fr[p].sends = 0, !.fr[p].probed = FALSE,
                        !.fr[p].url_token = "none",
                        !.ob.proc = p, !.ob.req = res]
    IN IF res \in Exceptions
       THEN FetcherDone(w, p, IF f = "get_scale_users" THEN Data ELSE None)
       ELSE IF res = None
       THEN FetcherDone(w, p, IF f = "get_scale_users" THEN Data ELSE None)
       ELSE CASE f = "get_measurements" -> MeasurementsPost(w, p, body)
              [] f = "get_device_info" -> DeviceInfoPost(w, p, body)
              [] f = "list_latest_model" -> LatestModelPost(w, p, body)
              [] f = "list_girth" -> GirthPost(w, p, body)
              [] f = "list_girth_goal" -> GirthGoalPost(w, p, body)
              [] f = "list_growth_record" -> GrowthRecordPost(w, p, body)
              [] f = "get_scale_users" -> ScaleUsersPost(w, p, body)
              [] OTHER -> PlainPost(w, p, body)

\* ------------------------------------------------------------------ auth and _request

\* where _request has no parsed body to hand over
NoBody == NoneObject

\* finally: self.auth_in_progress = False, lines 299-300; the finally clause
\* belongs to the try statement inside the for loop, so it runs at the end of
\* every pass
AuthFinally(w) == [w EXCEPT !.self.auth_in_progress = FALSE]

RECURSIVE AuthDone(_, _, _)

\* one pass of the for statement up to await self.check_proxy(), lines 243-246
AuthAttempt(w, p, attempt) ==
    [w EXCEPT !.self.token = None, !.fr[p].attempt = attempt, !.fr[p].aprobed = FALSE,
              !.fr[p].pc = "auth_probe",
              !.ob.proc = p, !.ob.cleared = "attempt"]

\* the in-progress guard, lines 226-229: TRUE when the call goes on
AuthGuard(c) == ~c.auth_in_progress

\* auth from its call up to its first await or its end, lines 226-246.
\* encrypt_password is given the fixed key and does not fail
AuthEnter(w0, p, from) ==
    LET w == [w0 EXCEPT !.fr[p].authFrom = from,
                        !.fr[p].posts = 0,
                        !.fr[p].reauths = IF from = "validate" THEN @ ELSE @ + 1]
    IN IF ~AuthGuard(w.self) THEN AuthDone(w, p, "False")
       ELSE LET w1 == [w EXCEPT !.self.auth_in_progress = TRUE]
            IN IF w1.self.email = "" \/ w1.self.password = ""
               THEN AuthDone(w1, p, "AuthenticationError")
               ELSE IF w1.self.public_key = None
               THEN AuthDone(w1, p, "AuthenticationError")
               ELSE AuthAttempt(w1, p, 0)

\* after the try statement of one pass: the next pass, or the end of the for
\* statement, where auth returns None
AuthNext(w, p) ==
    IF w.fr[p].attempt + 1 < AuthAttempts
    THEN AuthAttempt(w, p, w.fr[p].attempt + 1)
    ELSE AuthDone(w, p, None)

\* url.endswith("sign_in.json"): no fetcher's URL is the sign-in URL
IsSignInUrl(f) == f \notin Fetchers

\* line 167: not self.token and not url.endswith("sign_in.json") or not skip_auth
NeedsAuth(c, f, skip_auth) == (c.token = None /\ ~IsSignInUrl(f)) \/ ~skip_auth

\* session.request(method, url, **kwargs), line 175: the data request goes out
RequestSend(w, p) ==
    [w EXCEPT !.fr[p].pc = "req_send", !.fr[p].sends = @ + 1,
              !.ob.proc = p,
              !.ob.sent = w.fr[p].url_token,
              !.ob.held = w.self.token]

\* the while statement of _request with one pass too many
RequestLoopOneMore(w, p) ==
    IF w.fr[p].retries >= 0
    THEN IF NeedsAuth(w.self, w.fr[p].fetcher, w.fr[p].skip_auth)
         THEN AuthEnter(w, p, "pre")
         ELSE RequestSend(w, p)
    ELSE RequestDone(w, p, None, NoBody)

\* _request from the top of its while statement up to the next await or its
\* end, lines 159-175
RequestLoop(w, p) ==
    IF w.fr[p].retries > 0
    THEN IF NeedsAuth(w.self, w.fr[p].fetcher, w.fr[p].skip_auth)
         THEN AuthEnter(w, p, "pre")
         ELSE RequestSend(w, p)
    ELSE RequestDone(w, p, None, NoBody)

\* auth ends with res, "True", "False", None or an exception, and its caller
\* goes on: validate_credentials (lines 216-220), _request before the send
\* (lines 168-175) or _request after a session-expired response (lines 181-185)
AuthDone(w0, p, res) ==
    LET from == w0.fr[p].authFrom
        first == w0.ob.auth = "none"
        w == [w0 EXCEPT !.fr[p].attempt = 0, !.fr[p].authFrom = "none",
                        !.fr[p].posts = 0, !.fr[p].aprobed = FALSE,
                        !.ob.proc = p,
                        !.ob.auth = IF first THEN res ELSE @,
                        !.ob.auth_token = IF first THEN w0.self.token ELSE @,
                        !.ob.auth_user = IF first THEN w0.self.user_id ELSE @,
                        !.ob.auth_posts = IF first THEN w0.fr[p].posts ELSE @]
        raised == IF res \in Exceptions THEN res ELSE "AuthenticationError"
    IN CASE from = "validate" ->
                TopDone(w, p, IF res \in Exceptions THEN "AuthenticationError" ELSE res)
         [] from = "pre" ->
                IF res = "True" THEN RequestSend(w, p)
                ELSE RequestDone(w, p, raised, NoBody)
         [] OTHER ->
                IF res = "True" THEN RequestLoop([w EXCEPT !.fr[p].retries = @ - 1], p)
                ELSE RequestDone(w, p, raised, NoBody)

\* _request after await self.check_proxy(), lines 156-159
RequestProbed(w, p, ok) ==
    IF ok THEN RequestLoop([w EXCEPT !.fr[p].probed = TRUE, !.ob.probe = "True"], p)
    ELSE RequestDone([w EXCEPT !.ob.probe = "False"], p, "APIError", NoBody)

\* auth after await self.check_proxy(), lines 246-257
AuthProbed(w, p, ok) ==
    IF ok THEN [w EXCEPT !.fr[p].pc = "auth_post", !.fr[p].aprobed = TRUE,
                         !.fr[p].posts = @ + 1, !.ob.probe = "True"]
    ELSE AuthDone(AuthFinally([w EXCEPT !.ob.probe = "False"]), p, "APIError")

\* the coroutine is handed the outcome of its request: a failure, or the
\* parsed body (lines 177 and 259)
Received(w, p, r, on) ==
    IF r.kind # "json"
    THEN [w EXCEPT !.ob.proc = p, !.ob.on = on, !.ob.got = r.kind]
    ELSE [w EXCEPT !.ob.proc = p, !.ob.on = on, !.ob.got = r.status_code, !.ob.msg = r.status_message,
                   !.ob.key = IF "key" \in DOMAIN r THEN r.key ELSE "none",
                   !.ob.id = IF "id" \in DOMAIN r THEN r.id ELSE "none"]

\* a login that overwrites a user id that is already set
LoginOverwritesUser(w, r) ==
    [w EXCEPT !.self.token = r.key, !.self.user_id = r.id]

\* lines 278-291: the token is the session key of the response, and the user
\* id of the response is adopted when self.user_id is None
LoginAccepted(w, r) ==
    [w EXCEPT !.self.token = r.key, !.self.user_id = IF @ = None THEN r.id ELSE @]

\* a connection error that ends auth on whatever pass it comes
LastAttemptAlwaysNow(attempt) == TRUE

\* line 295, attempt < 3 - 1 is false: the connection error came on the last pass
LastAttempt(attempt) == ~(attempt < AuthAttempts - 1)

\* auth after the sign-in POST, lines 257-300
AuthPosted(w0, p, r) ==
    LET w == Received([w0 EXCEPT !.fr[p].aprobed = FALSE], p, r, "sign_in")
    IN
    CASE r.kind = "conn_error" ->
            IF ~LastAttempt(w.fr[p].attempt)
            THEN [w EXCEPT !.fr[p].pc = "auth_sleep"]
            ELSE AuthDone(AuthFinally(w), p, "AuthenticationError")
      [] r.kind = "timeout" -> AuthDone(AuthFinally(w), p, "TimeoutError")
      [] r.kind = "null" -> AuthDone(AuthFinally(w), p, "AuthenticationError")
      [] OTHER ->
            IF \/ r.status_code = "50000" /\ r.status_message = "Email was not registered"
               \/ r.status_code = "500" /\ r.status_message = "Internal Server Error"
               \/ r.key = None
            THEN AuthDone(AuthFinally(w), p, "AuthenticationError")
            ELSE IF r.status_code = "20000" /\ r.status_message = "ok"
            THEN AuthDone(AuthFinally(LoginAccepted(w, r)), p, "True")
            ELSE AuthNext(AuthFinally(w), p)

\* auth after await asyncio.sleep(5), lines 296-300
AuthSlept(w, p) == AuthNext(AuthFinally(w), p)

\* _request after the response to the data request, lines 175-194
RequestAnswered(w0, p, r) ==
    LET w == Received([w0 EXCEPT !.fr[p].probed = FALSE], p, r, "data")
    IN
    CASE r.kind = "conn_error" -> RequestDone(w, p, "APIError", NoBody)
      [] r.kind = "timeout" -> RequestDone(w, p, "TimeoutError", NoBody)
      [] r.kind = "null" -> RequestDone(w, p, "AttributeError", NoBody)
      [] OTHER ->
            IF r.status_code = "40302"
            THEN AuthEnter([w EXCEPT !.fr[p].skip_auth = FALSE,
                                     !.fr[p].expired = TRUE,
                                     !.fr[p].reauths = 0], p, "exp")
            ELSE IF r.status_code = "50000" THEN RequestDone(w, p, "APIError", NoBody)
            ELSE IF r.status_code = "20000" /\ r.status_message = "ok"
            THEN RequestDone(w, p, "body", r)
            ELSE RequestDone(w, p, "APIError", NoBody)

\* CancelledError caught like an Exception by the fetcher's except clause: the
\* fetcher returns None and poll_data goes on
CancelledCaught(w, p) ==
    IF w.fr[p].pc = "start"
    THEN [w EXCEPT !.fr[p] = [IdleFrame("done") EXCEPT !.op = "polling_loop",
                                                    !.exit = "unstarted"]]
    ELSE RequestDone([AuthFinally(w) EXCEPT !.fr[p].cancel = FALSE], p, "TimeoutError", NoBody)

\* CancelledError is thrown into a poll loop task at its suspension point.  It
\* is no Exception, so no except clause on the way catches it before line 645;
\* inside auth the finally clause runs.  A task cancelled before its first
\* step ends without running any of polling_loop
Cancelled(w, p) ==
    CASE w.fr[p].pc = "start" ->
            [w EXCEPT !.fr[p] = [IdleFrame("done") EXCEPT !.op = "polling_loop",
                                                       !.exit = "unstarted"]]
      [] w.fr[p].pc \in {"auth_probe", "auth_post", "auth_sleep"} ->
            LoopExit(AuthFinally(w), p, "cancelled")
      [] OTHER -> LoopExit(w, p, "cancelled")

\* ------------------------------------------------------------------ poller

\* a slot that asyncio.create_task can fill: it holds no task, or a task that
\* has ended and that self.polling_task no longer names
FreeSlot(w, t) == w.fr[t].pc \in {"free", "done"} /\ w.self.polling_task # t

\* the order in which free slots are filled
SlotBefore(u, t) == u = "t1" /\ t # "t1"

\* start_polling without the check of line 630
StartPollingUnguarded(w, t) ==
    [w EXCEPT !.self.is_polling_active = TRUE,
              !.self.polling_task = t,
              !.fr[t] = [IdleFrame("start") EXCEPT !.op = "polling_loop"]]

\* start_polling, lines 630-635; t is the task that create_task returns
StartPollingOp(w, t) ==
    IF w.self.is_polling_active THEN w
    ELSE [w EXCEPT !.self.is_polling_active = TRUE,
                   !.self.polling_task = t,
                   !.fr[t] = [IdleFrame("start") EXCEPT !.op = "polling_loop"]]

\* stop_polling, lines 656-664; Task.cancel() on a task that has ended does
\* nothing
StopPollingOp(w) ==
    IF ~w.self.is_polling_active THEN w
    ELSE IF w.self.polling_task \in {None, Unset} THEN w
    ELSE LET t == w.self.polling_task
         IN [w EXCEPT !.fr[t].cancel = (w.fr[t].pc # "done"),
                      !.self.is_polling_active = FALSE,
                      !.self.polling_task = None]

\* open_session, lines 104-113: a client without a session, or with a closed
\* one, drops its token and gets a session; the session is then closed and
\* replaced by a new one (closing a session that has made no request does not
\* suspend the coroutine)
OpenSessionOp(w0, p) ==
    LET w == IF w0.self.session \in {None, "closed"}
             THEN [w0 EXCEPT !.self.token = None, !.self.session = "open",
                             !.ob.proc = p, !.ob.cleared = "open_session"]
             ELSE w0
    IN TopDone([w EXCEPT !.self.session = "open"], p, None)

\* close, lines 670-673: stop_polling, then the session, if there is one, is
\* closed
CloseOp(w0, p) ==
    LET w == StopPollingOp(w0)
    IN TopDone([w EXCEPT !.self.session = IF @ = None THEN None ELSE "closed"], p, None)

\* ------------------------------------------------------------------ the network

\* a body of the sign-in endpoint
SignIn(code, message, key, id) ==
    [kind |-> "json", status_code |-> code, status_message |-> message, key |-> key, id |-> id]

\* a body of a data endpoint; data is the list under the endpoint's key
\* (last_ary, girths, girth_goals, device_binds_ary, scale_users)
Body(code, message, data) ==
    [kind |-> "json", status_code |-> code, status_message |-> message, data |-> data]

\* aiohttp.ClientResponseError or aiohttp.ClientConnectionError
ConnError == [kind |-> "conn_error"]

\* asyncio.TimeoutError, the 60 second total timeout
Timeout == [kind |-> "timeout"]

\* the session keys the vendor hands out
Keys == {"k1", "k2"}

\* ------------------------------------------------------------------ actions

World == [self |-> self, fr |-> frames, ob |-> NoObs]

Becomes(w) == self' = w.self /\ frames' = w.fr /\ last' = "none" /\ obs' = w.ob

CallFrame(op) == [IdleFrame("idle") EXCEPT !.op = op]

\* the host calls validate_credentials, lines 210-220
CallValidate(h) ==
    /\ frames[h].pc = "idle"
    /\ Becomes(AuthEnter([World EXCEPT !.fr[h] = CallFrame("validate_credentials")],
                         h, "validate"))

\* is_valid_session, lines 206-208
IsValidSession(c) == c.token # None

\* the host calls is_valid_session, which returns without awaiting anything
CallIsValidSession(h) ==
    /\ frames[h].pc = "idle"
    /\ LET valid == IF IsValidSession(self) THEN "True" ELSE "False"
       IN Becomes(TopDone([World EXCEPT !.fr[h] = CallFrame("is_valid_session"),
                                        !.ob.proc = h, !.ob.valid = valid], h, valid))

\* the host calls a fetcher
CallFetcher(h, f) ==
    /\ frames[h].pc = "idle"
    /\ Becomes(FetcherEnter([World EXCEPT !.fr[h] = CallFrame(f)], h, f))

\* the host calls get_info
CallGetInfo(h) ==
    /\ frames[h].pc = "idle"
    /\ Becomes(GetInfoEnter([World EXCEPT !.fr[h] = CallFrame("get_info")], h))

\* the host calls get_weight
CallGetWeight(h) ==
    /\ frames[h].pc = "idle"
    /\ Becomes(GetWeightEnter([World EXCEPT !.fr[h] = CallFrame("get_weight")], h))

\* the host calls open_session
CallOpenSession(h) ==
    /\ frames[h].pc = "idle"
    /\ Becomes(OpenSessionOp([World EXCEPT !.fr[h] = CallFrame("open_session")], h))

\* the host calls close
CallClose(h) ==
    /\ frames[h].pc = "idle"
    /\ Becomes(CloseOp([World EXCEPT !.fr[h] = CallFrame("close")], h))

\* the host calls get_specific_metric
CallMetric(h, metric_type, metric, user_id) ==
    /\ frames[h].pc = "idle"
    /\ Becomes(MetricEnter([World EXCEPT !.fr[h] = CallFrame("get_specific_metric")],
                           h, metric_type, metric, user_id))

\* the host calls start_polling
StartPolling ==
    \E t \in Tasks :
        /\ self.is_polling_active \/ FreeSlot(World, t)
        /\ \A u \in Tasks : FreeSlot(World, u) => ~SlotBefore(u, t)
        /\ self' = StartPollingOp(World, t).self
        /\ frames' = StartPollingOp(World, t).fr
        /\ last' = IF self.is_polling_active THEN "start_active" ELSE "start"
        /\ obs' = NoObs

\* the host calls stop_polling
StopPolling ==
    /\ self' = StopPollingOp(World).self
    /\ frames' = StopPollingOp(World).fr
    /\ last' = IF self.is_polling_active THEN "stop" ELSE "stop_idle"
    /\ obs' = NoObs

\* the event loop runs a new poll loop task for the first time.  The loop
\* runs what is ready in the order it became ready: a task that cancel() woke
\* before this one was created is resumed first
TaskStart(t) ==
    /\ frames[t].pc = "start" /\ ~frames[t].cancel
    /\ \A u \in Tasks : ~frames[u].cancel
    /\ Becomes(LoopTop(World, t))

\* check_proxy answers _request
RequestProbeDone(p, ok) ==
    /\ frames[p].pc = "req_probe" /\ ~frames[p].cancel
    /\ Becomes(RequestProbed(World, p, ok))

\* check_proxy answers auth
AuthProbeDone(p, ok) ==
    /\ frames[p].pc = "auth_probe" /\ ~frames[p].cancel
    /\ Becomes(AuthProbed(World, p, ok))

\* the sign-in POST is answered or fails
SignInDone(p, r) ==
    /\ frames[p].pc = "auth_post" /\ ~frames[p].cancel
    /\ Becomes(AuthPosted(World, p, r))

\* the data request is answered or fails
SendDone(p, r) ==
    /\ frames[p].pc = "req_send" /\ ~frames[p].cancel
    /\ Becomes(RequestAnswered(World, p, r))

\* asyncio.sleep ends: the retry delay of auth (line 296) or the refresh
\* interval of polling_loop (line 644)
SleepDone(p) ==
    /\ frames[p].pc \in {"auth_sleep", "loop_sleep"} /\ ~frames[p].cancel
    /\ Becomes(IF frames[p].pc = "auth_sleep" THEN AuthSlept(World, p) ELSE LoopTop(World, p))

\* the event loop resumes a cancelled poll loop task
CancelDeliver(t) ==
    /\ frames[t].cancel /\ frames[t].pc # "done"
    /\ Becomes(Cancelled(World, t))

\* ------------------------------------------------------------------ the session: concurrent callers

\* RenphoWeight(email, password, user_id, refresh)
Init ==
    /\ \E email \in {"", "e"}, password \in {"", "pw"}, user_id \in {None, "", "u1"} :
            self = Construct(email, password, user_id, 60)
    /\ frames = [p \in Procs |-> IF p \in Hosts THEN IdleFrame("idle") ELSE IdleFrame("free")]
    /\ last = "none"
    /\ obs = NoObs

\* the sign-in answers of the session specification
SignInAnswers ==
    {ConnError, Timeout,
     SignIn("500", "Internal Server Error", None, None),
     SignIn("50000", "Email was not registered", None, None),
     SignIn("20000", "ok", None, "u9"),
     SignIn("40000", "busy", "k1", "u9")}
    \cup {SignIn("20000", "ok", k, "u9") : k \in Keys}

\* one girth entry
OneGirth == <<[waist_value |-> "80", time_stamp |-> 100]>>

\* the data answers of the session specification
DataAnswers ==
    {ConnError, Timeout,
     Body("40302", "expired", NoneList), Body("50000", "error", NoneList),
     Body("40000", "busy", NoneList), Body("20000", "busy", OneGirth),
     Body("20000", "ok", OneGirth)}

Next ==
    \/ \E h \in Hosts : CallValidate(h)
    \/ \E h \in Hosts : CallIsValidSession(h)
    \/ \E h \in Hosts : CallFetcher(h, "list_girth")
    \/ \E p \in Hosts, ok \in BOOLEAN : RequestProbeDone(p, ok)
    \/ \E p \in Hosts, ok \in BOOLEAN : AuthProbeDone(p, ok)
    \/ \E p \in Hosts, r \in SignInAnswers : SignInDone(p, r)
    \/ \E p \in Hosts, r \in DataAnswers : SendDone(p, r)
    \/ \E p \in Hosts : SleepDone(p)

Spec == Init /\ [][Next]_vars

\* ------------------------------------------------------------------ the poller: start, stop and the loop tasks

\* one weight measurement
OneMeasurement == <<[weight |-> "70", time_stamp |-> 100, internal_model |-> "m1"]>>

\* one girth goal
OneGoal == <<[girth_type |-> "waist", goal_value |-> "75", setup_goal_at |-> 100]>>

\* a list as the endpoint of fetcher f returns it
Sample(f) ==
    CASE f = "get_measurements" -> OneMeasurement
      [] f = "list_girth" -> OneGirth
      [] f = "list_girth_goal" -> OneGoal
      [] OTHER -> <<[user_id |-> "u2"]>>

\* the sign-in answers of the poller specification
PollSignInAnswers ==
    {ConnError, SignIn("500", "Internal Server Error", None, None), SignIn("20000", "ok", "k1", "u9")}

\* the data answers of the poller specification
PollDataAnswers(f) ==
    {ConnError, Body("40302", "expired", NoneList), Body("20000", "ok", Sample(f))}

NextPoll ==
    \/ StartPolling
    \/ StopPolling
    \/ \E t \in Tasks : TaskStart(t)
    \/ \E t \in Tasks, ok \in BOOLEAN : RequestProbeDone(t, ok)
    \/ \E t \in Tasks, ok \in BOOLEAN : AuthProbeDone(t, ok)
    \/ \E t \in Tasks, r \in PollSignInAnswers : SignInDone(t, r)
    \/ \E t \in Tasks : \E r \in PollDataAnswers(frames[t].fetcher) : SendDone(t, r)
    \/ \E t \in Tasks : SleepDone(t)
    \/ \E t \in Tasks : CancelDeliver(t)

\* RenphoWeight(email, "pw")
InitPoll ==
    /\ \E email \in {"", "e"} : self = Construct(email, "pw", None, 60)
    /\ frames = [p \in Procs |-> IF p \in Hosts THEN IdleFrame("idle") ELSE IdleFrame("free")]
    /\ last = "none"
    /\ obs = NoObs

SpecPoll == InitPoll /\ [][NextPoll]_vars

\* the event loop resumes a cancelled task at its next step
FairSpecPoll == SpecPoll /\ \A t \in Tasks : WF_vars(CancelDeliver(t))

\* ------------------------------------------------------------------ the fetchers, called by the host

\* the coroutine of the host that calls the fetchers one after the other
FetchHosts == {"h1"}

\* the fetchers that read a list out of the body
ListFetchers ==
    {"get_scale_users", "get_measurements", "get_device_info", "list_girth", "list_girth_goal"}

\* the data answers of the fetcher specification: a failure, an expired
\* session, a refusal, and success with the list, with an empty list and (for
\* the fetchers that read a list) without the list
FetchDataAnswers(f) ==
    {ConnError, Body("40302", "expired", NoneList), Body("20000", "busy", Sample(f)),
     Body("20000", "ok", Sample(f))}
    \cup (IF f \in ListFetchers
          THEN {Body("20000", "ok", NoneList), Body("20000", "ok", <<>>)} ELSE {})

NextFetch ==
    \/ \E h \in FetchHosts, f \in Fetchers : CallFetcher(h, f)
    \/ \E h \in FetchHosts : CallGetInfo(h)
    \/ \E h \in FetchHosts : CallGetWeight(h)
    \/ \E p \in FetchHosts, ok \in BOOLEAN : RequestProbeDone(p, ok)
    \/ \E p \in FetchHosts, ok \in BOOLEAN : AuthProbeDone(p, ok)
    \/ \E p \in FetchHosts, r \in PollSignInAnswers : SignInDone(p, r)
    \/ \E p \in FetchHosts : \E r \in FetchDataAnswers(frames[p].fetcher) : SendDone(p, r)
    \/ \E p \in FetchHosts : SleepDone(p)

SpecFetch == InitPoll /\ [][NextFetch]_vars

\* ------------------------------------------------------------------ the metric accessor over girth data

\* the longest list an endpoint returns
MaxLen == 2

\* the timestamps of the entries
Times == {100, 200}

\* the values of a girth or of a goal: absent, zero, and two readings
Values == {None, "0", "80", "85"}

\* all sequences over S of length at most n
SeqsUpTo(S, n) == UNION {[1..k -> S] : k \in 0..n}

\* the entries of a girth list
GirthEntries == {[waist_value |-> v, time_stamp |-> ts] : v \in Values, ts \in Times}

\* the entries of a girth goal list: waist goals of every value, and hip
\* goals of one value that no waist goal has
GoalEntries ==
    {[girth_type |-> "waist", goal_value |-> v, setup_goal_at |-> ts] :
        v \in Values, ts \in Times}
    \cup {[girth_type |-> "hip", goal_value |-> "70", setup_goal_at |-> ts] : ts \in Times}

\* the data answers of the metric specifications: a failure, and success with
\* every list of entries
MetricDataAnswers(entries) ==
    {ConnError}
    \cup {Body("20000", "ok", l) : l \in SeqsUpTo(entries, MaxLen)}

\* the sign-in answers of the metric specifications
MetricSignInAnswers == {ConnError, SignIn("20000", "ok", "k1", "u9")}

NextGirth ==
    \/ \E h \in FetchHosts, m \in {"waist", "neck"} : CallMetric(h, METRIC_TYPE_GIRTH, m, None)
    \/ \E h \in FetchHosts : CallFetcher(h, "list_girth")
    \/ \E p \in FetchHosts, ok \in BOOLEAN : RequestProbeDone(p, ok)
    \/ \E p \in FetchHosts, ok \in BOOLEAN : AuthProbeDone(p, ok)
    \/ \E p \in FetchHosts, r \in MetricSignInAnswers : SignInDone(p, r)
    \/ \E p \in FetchHosts, r \in MetricDataAnswers(GirthEntries) : SendDone(p, r)
    \/ \E p \in FetchHosts : SleepDone(p)

SpecGirth == InitPoll /\ [][NextGirth]_vars

\* the category names a caller may pass for girth goals: the constant of the
\* code, and the name the specification uses
GoalCategories == {METRIC_TYPE_GIRTH_GOAL, "girth_goal"}

NextGoal ==
    \/ \E h \in FetchHosts, c \in GoalCategories, ty \in {"waist", "hip"} :
            CallMetric(h, c, ty, None)
    \/ \E h \in FetchHosts : CallFetcher(h, "list_girth_goal")
    \/ \E p \in FetchHosts, ok \in BOOLEAN : RequestProbeDone(p, ok)
    \/ \E p \in FetchHosts, ok \in BOOLEAN : AuthProbeDone(p, ok)
    \/ \E p \in FetchHosts, r \in MetricSignInAnswers : SignInDone(p, r)
    \/ \E p \in FetchHosts, r \in MetricDataAnswers(GoalEntries) : SendDone(p, r)
    \/ \E p \in FetchHosts : SleepDone(p)

SpecGoal == InitPoll /\ [][NextGoal]_vars

\* ------------------------------------------------------------------ claims on the session

\* the coroutine is inside auth, past the in-progress guard: probing the
\* connection, posting the credentials or waiting to retry
InAuth(p) == frames[p].pc \in {"auth_probe", "auth_post", "auth_sleep"}

\* C1: whenever _request sends its data request again after a session-expired
\* response (status_code "40302"), auth has been called exactly once since that
\* response.
C1_OneReauthPerExpiry ==
    \A p \in Procs :
        (frames[p].pc = "req_send" /\ frames[p].expired) => frames[p].reauths = 1

\* C2: at most one call of auth is past the in-progress guard at any time,
\* through all three sign-in attempts of the active call and its waits.
C2_SingleAuthInFlight == Cardinality({p \in Procs : InAuth(p)}) <= 1

\* C3: on a client whose email or password is empty no call of auth reaches
\* the network, and every call, the first and the later ones, ends with
\* AuthenticationError (validate_credentials hands on what auth returns, and
\* turns what auth raises into AuthenticationError).
C3_EmptyCredentialsRaise ==
    (self.email = "" \/ self.password = "") =>
        \A h \in Hosts :
            /\ ~InAuth(h)
            /\ (frames[h].op = "validate_credentials" /\ frames[h].pc = "idle")
                    => frames[h].ret = "AuthenticationError"


\* ------------------------------------------------------------------ claims on the poller

\* C4: while the poller is Active (start_polling was called and stop_polling
\* was not), its loop task has not exited: after every cycle it sleeps and runs
\* another cycle.
C4_ActiveLoopRuns ==
    \A t \in Tasks :
        (self.is_polling_active /\ self.polling_task = t) => frames[t].pc # "done"

\* C5: only explicit cancellation makes the poll loop exit; an error raised
\* inside an iteration does not end the loop.
C5_OnlyCancellationExits ==
    \A t \in Tasks : frames[t].pc = "done" => frames[t].exit \in {"cancelled", "unstarted"}

\* a poll loop task that exists and has not ended
Live(t) == frames[t].pc \notin {"free", "done"}

\* a poll loop task that is scheduled to run the loop: it has not ended and
\* has not been cancelled
Scheduled(t) == Live(t) /\ ~frames[t].cancel

\* C6, the call: stop_polling on an Active poller makes the poller Idle, drops
\* self.polling_task and cancels the loop task (unless it has ended already).
C6_StopStep ==
    last' = "stop" =>
        /\ ~self'.is_polling_active
        /\ self'.polling_task = None
        /\ self.polling_task \in Tasks
        /\ Live(self.polling_task) => frames'[self.polling_task].cancel

\* C6, the loop: a cancelled loop task does nothing but exit; it exits through
\* the except clause for CancelledError, or without having run, and begins no
\* fetch, no probe and no sign-in; inside auth it leaves the in-progress flag
\* released.
C6_CancelledStep ==
    \A t \in Tasks :
        (frames[t].cancel /\ frames'[t] # frames[t]) =>
            /\ frames'[t].pc = "done"
            /\ frames'[t].exit = IF frames[t].pc = "start" THEN "unstarted" ELSE "cancelled"
            /\ InAuth(t) => ~self'.auth_in_progress

\* C6: stop_polling on an Active poller cancels the loop task and makes the
\* poller Idle; the cancellation, wherever it arrives, is caught inside the
\* loop, the loop eventually exits, and it starts no further fetch after the
\* stop.
C6_StopCancelsLoop ==
    /\ [][C6_StopStep /\ C6_CancelledStep]_vars
    /\ \A t \in Tasks : frames[t].cancel ~> (frames[t].pc = "done")

\* C6, reached: the poller is Idle after a stop and a loop task has exited
\* through the except clause for CancelledError.
C6_Witness ==
    /\ ~self.is_polling_active /\ self.polling_task = None
    /\ \E t \in Tasks : frames[t].pc = "done" /\ frames[t].exit = "cancelled"

\* C7, the calls: stop_polling on an Idle poller and start_polling on an
\* Active poller change no field of the client and no task.
C7_NoOpStep ==
    last' \in {"stop_idle", "start_active"} => (self' = self /\ frames' = frames)

\* C7: stop_polling on an Idle poller and start_polling on an Active poller
\* are no-ops, and no second loop task is created: at most one poll loop task
\* is scheduled at any time, and the Active poller's task is the one that
\* self.polling_task names.
C7_NoOpsOneTask ==
    /\ [][C7_NoOpStep]_vars
    /\ [](Cardinality({t \in Tasks : Scheduled(t)}) <= 1)
    /\ [](\A t \in Tasks : Scheduled(t) => (self.is_polling_active /\ self.polling_task = t))

\* C7, reached: start_polling has just been refused on an Active poller whose
\* loop task is running while another slot is free.
C7_Witness ==
    /\ last = "start_active"
    /\ \E t, u \in Tasks : t # u /\ Scheduled(t) /\ frames[t].pc # "start" /\ FreeSlot(World, u)


\* ------------------------------------------------------------------ claims on the fetchers

\* C8: no data fetcher ever raises to its caller, in any reachable client
\* state: what the host gets back from a fetcher is a value or None.
C8_FetchersNeverRaise ==
    \A h \in Hosts :
        (frames[h].pc = "idle" /\ frames[h].op \in Fetchers) => frames[h].ret \notin Exceptions


\* ------------------------------------------------------------------ claims on the metric accessor

\* get_specific_metric has returned to host h, called for category c
Answered(h, c) ==
    /\ frames[h].pc = "idle"
    /\ frames[h].op = "get_specific_metric"
    /\ frames[h].metric_type = c

\* the cached list, empty when there is no cache
Cached(list) == IF list = NoneList THEN <<>> ELSE list

\* ret is the reading, under value, of an entry of list that is newest (by
\* stamp) among the entries i with Ok(i) that carry a reading, or ret is None
\* and there is no such entry
NewestReading(list, Ok(_), value, stamp, ret) ==
    LET qualifying == {i \in 1..Len(list) :
                          Ok(list[i]) /\ value \in DOMAIN list[i] /\ list[i][value] \notin {None, "0"}}
    IN IF qualifying = {} THEN ret = None
       ELSE \E i \in qualifying :
                /\ \A j \in qualifying : list[j][stamp] <= list[i][stamp]
                /\ ret = list[i][value]

\* C9: for any cached girth dataset and any metric name m,
\* get_specific_metric("girth", m) returns the m value of the entry with the
\* maximum timestamp among the entries whose m value is present and non-zero,
\* and None when no entry qualifies.
C9_GirthNewestReading ==
    \A h \in Hosts :
        Answered(h, METRIC_TYPE_GIRTH) =>
            NewestReading(Cached(self.girth_info), LAMBDA g : TRUE,
                          frames[h].metric \o "_value", "time_stamp", frames[h].ret)

\* C9, reached: the cache holds a newer entry with a zero or absent value and
\* an older one with a reading, and the call has returned the older reading.
C9_Witness ==
    \E h \in Hosts :
        /\ Answered(h, METRIC_TYPE_GIRTH) /\ frames[h].metric = "waist"
        /\ self.girth_info # NoneList /\ Len(self.girth_info) = 2
        /\ \E i, j \in 1..2 :
                /\ self.girth_info[i].time_stamp > self.girth_info[j].time_stamp
                /\ self.girth_info[i].waist_value \in {None, "0"}
                /\ self.girth_info[j].waist_value = "80"
        /\ frames[h].ret = "80"

\* C10 as stated: for any cached girth-goal dataset and any goal type t,
\* getMetric("girth_goal", t) returns the goal value of the entry of type t
\* with the maximum setup timestamp among those with a non-zero, non-absent
\* goal value, and None when no entry qualifies.
C10_GoalNewestReading_AsStated ==
    \A h \in Hosts :
        Answered(h, "girth_goal") =>
            NewestReading(Cached(self.girth_goal),
                          LAMBDA g : g.girth_type = frames[h].metric,
                          "goal_value", "setup_goal_at", frames[h].ret)

\* C10, amended: the same, for the category that the code knows,
\* METRIC_TYPE_GIRTH_GOAL = "girth_goals"; under the category "girth_goal" the
\* call is one with an unknown category and returns None.
C10_GoalNewestReading ==
    \A h \in Hosts :
        /\ Answered(h, METRIC_TYPE_GIRTH_GOAL) =>
                NewestReading(Cached(self.girth_goal),
                              LAMBDA g : g.girth_type = frames[h].metric,
                              "goal_value", "setup_goal_at", frames[h].ret)
        /\ Answered(h, "girth_goal") => frames[h].ret = None

\* C10, reached: the cache holds two goals of the type asked for, the call
\* under "girth_goals" has returned the newer one.
C10_Witness ==
    \E h \in Hosts :
        /\ Answered(h, METRIC_TYPE_GIRTH_GOAL) /\ frames[h].metric = "waist"
        /\ self.girth_goal # NoneList /\ Len(self.girth_goal) = 2
        /\ \E i, j \in 1..2 :
                /\ self.girth_goal[i].setup_goal_at > self.girth_goal[j].setup_goal_at
                /\ self.girth_goal[i].girth_type = "waist" /\ self.girth_goal[j].girth_type = "waist"
                /\ self.girth_goal[i].goal_value = "85" /\ self.girth_goal[j].goal_value = "80"
        /\ frames[h].ret = "85"

\* ------------------------------------------------------------------ claims on sign-in and _request

\* the step in which coroutine p is handed the outcome of its sign-in POST
SignInStep(p) == frames[p].pc = "auth_post" /\ obs'.proc = p /\ obs'.on = "sign_in"

\* C11, the step: a sign-in response with status_code "20000", status_message
\* "ok", session key k and id u makes auth return True with self.token = k; the
\* user id is u if none was set, and a user id that was set is unchanged.
C11_LoginStep ==
    \A p \in Procs :
        (SignInStep(p) /\ obs'.got = "20000" /\ obs'.msg = "ok" /\ obs'.key # None)
            => /\ obs'.auth = "True"
               /\ obs'.auth_token = obs'.key
               /\ obs'.auth_user = IF self.user_id = None THEN obs'.id ELSE self.user_id

\* C11: every successful login sets the token to the session key of the
\* response, adopts the returned user id only when no user id is set, and auth
\* returns True.
C11_LoginSetsTokenAndUser == [][C11_LoginStep]_vars

\* C11, reached: auth has just returned True on a client that had no user id:
\* the token is the session key and the user id is the id of the response.
C11_Witness ==
    /\ obs.auth = "True" /\ obs.on = "sign_in" /\ obs.got = "20000" /\ obs.msg = "ok" /\ obs.key \in Keys
    /\ obs.auth_token = obs.key
    /\ obs.auth_user = "u9" /\ obs.id = "u9"

\* the data request of the last step was answered with a body that is not the
\* success body and not the session-expired body, or failed in transport (a
\* connection error, an HTTP error status, the 60 second timeout)
ErrorAnswer ==
    /\ obs.on = "data"
    /\ obs.got # "40302"
    /\ ~(obs.got = "20000" /\ obs.msg = "ok")

\* C12: _request returns the parsed body only for status_code "20000" with
\* status_message "ok"; status_code "50000", any other code except
\* session-expired, and a transport error make it raise APIError, and the
\* request is not sent again.
C12_RequestClassifies ==
    /\ obs.req = "body" => (obs.on = "data" /\ obs.got = "20000" /\ obs.msg = "ok")
    /\ ErrorAnswer => obs.req = "APIError"

\* C13: one call of _request with the default budget sends its data request
\* at most 3 times, whatever the responses are.
C13_AtMostThreeSends == \A p \in Procs : frames[p].sends <= 3

\* C13, reached: the third send of one call is in flight, after two
\* session-expired responses.
C13_Witness ==
    \E p \in Procs : frames[p].pc = "req_send" /\ frames[p].sends = 3 /\ frames[p].expired

\* C14: a data request or a sign-in POST is in flight only if check_proxy was
\* run for it and returned True, on the first send and on every re-send after
\* a session-expired response; when check_proxy returns False the caller
\* raises APIError at once and sends nothing.
C14_ProbeBeforeEverySend ==
    /\ \A p \in Procs : frames[p].pc = "req_send" => frames[p].probed
    /\ \A p \in Procs : frames[p].pc = "auth_post" => frames[p].aprobed
    /\ obs.probe = "False" =>
            /\ obs.req = "APIError" \/ obs.auth = "APIError"
            /\ frames[obs.proc].pc \notin {"req_send", "auth_post"}

\* the sign-in POST of the last step failed with a connection error
\* (aiohttp.ClientResponseError or aiohttp.ClientConnectionError)
SignInConnError == obs.on = "sign_in" /\ obs.got = "conn_error"

\* the sign-in POST of the last step was answered with a rejection: an
\* unregistered email, a bad password, or a body without a session key
SignInRejected ==
    /\ obs.on = "sign_in"
    /\ \/ obs.got = "50000" /\ obs.msg = "Email was not registered"
       \/ obs.got = "500" /\ obs.msg = "Internal Server Error"
       \/ obs.key = None

AuthFailed ==
    /\ obs.auth = "AuthenticationError" /\ obs.auth_posts >= 1
    /\ SignInRejected \/ SignInConnError

\* C16: when an authentication that reached the sign-in step ends in failure
\* the session holds no token, whatever it held before the call;
\* is_valid_session returns True exactly when a token is held, and its caller
\* is back at once, without a request.
C16_FailedAuthClearsToken ==
    /\ AuthFailed => obs.auth_token = None
    /\ obs.valid # "none" =>
            /\ obs.valid = "True" <=> self.token # None
            /\ frames[obs.proc].pc = "idle"

\* ------------------------------------------------------------------ the target user

\* the user_id arguments of get_specific_metric: none, empty, and two ids
\* that only a caller supplies (the vendor's ids are "u9" and "u2")
Supplied == {"u1", "u3"}

UserArgs == {None, ""} \cup Supplied

NextUser ==
    \/ \E h \in FetchHosts, u \in UserArgs :
            CallMetric(h, METRIC_TYPE_WEIGHT, "weight", u)
    \/ \E h \in FetchHosts, u \in UserArgs :
            CallMetric(h, METRIC_TYPE_GIRTH, "waist", u)
    \/ \E h \in FetchHosts, f \in {"get_scale_users", "get_measurements"} : CallFetcher(h, f)
    \/ \E p \in FetchHosts, ok \in BOOLEAN : RequestProbeDone(p, ok)
    \/ \E p \in FetchHosts, ok \in BOOLEAN : AuthProbeDone(p, ok)
    \/ \E p \in FetchHosts, r \in PollSignInAnswers : SignInDone(p, r)
    \/ \E p \in FetchHosts : \E r \in PollDataAnswers(frames[p].fetcher) : SendDone(p, r)
    \/ \E p \in FetchHosts : SleepDone(p)

SpecUser == InitPoll /\ [][NextUser]_vars

\* C17, the step: a step that is not a get_specific_metric call with a user id
\* leaves a target user that such a call has set as it is.
C17_UserStep ==
    (self.user_id \in Supplied /\ obs'.uid \notin Supplied) => self'.user_id = self.user_id

\* C17: get_specific_metric called with user id u makes u the target user,
\* and u stays the target user through every later call and fetch that
\* supplies no user id.
C17_UserOverridePersists ==
    /\ [](obs.uid \in Supplied => self.user_id = obs.uid)
    /\ [][C17_UserStep]_vars

\* ------------------------------------------------------------------ the weight cache

\* the entries of a measurement history
WeightEntries ==
    {[weight |-> v, time_stamp |-> ts, internal_model |-> "m1"] : v \in Values, ts \in Times}

\* the categories a caller asks the weight of: the constant of the code, and
\* a name that is no category
WeightCategories == {METRIC_TYPE_WEIGHT, "height"}

NextWeight ==
    \/ \E h \in FetchHosts, c \in WeightCategories, m \in {"weight", "bmi"} :
            CallMetric(h, c, m, None)
    \/ \E h \in FetchHosts : CallGetInfo(h)
    \/ \E h \in FetchHosts : CallFetcher(h, "get_measurements")
    \/ \E p \in FetchHosts, ok \in BOOLEAN : RequestProbeDone(p, ok)
    \/ \E p \in FetchHosts, ok \in BOOLEAN : AuthProbeDone(p, ok)
    \/ \E p \in FetchHosts, r \in MetricSignInAnswers : SignInDone(p, r)
    \/ \E p \in FetchHosts, r \in MetricDataAnswers(WeightEntries) : SendDone(p, r)
    \/ \E p \in FetchHosts : SleepDone(p)

SpecWeight == InitPoll /\ [][NextWeight]_vars

\* C18, the step: a get_specific_metric call for the weight category or for
\* an unknown category changes no field of the client.
C18_FrameStep ==
    \A h \in Hosts :
        (obs'.uid # "none" /\ obs'.proc = h /\ frames'[h].metric_type \in WeightCategories)
            => self' = self

\* C18: get_specific_metric with category weight sends nothing and changes
\* no cache: it has returned in the step of the call, with the requested
\* field of the cached weight entry, or None when no weight was ever fetched;
\* with an unknown category it returns None, also without a request.
C18_WeightFromCacheOnly ==
    /\ [][C18_FrameStep]_vars
    /\ [](\A h \in Hosts :
            (frames[h].op = "get_specific_metric" /\ frames[h].metric_type \in WeightCategories)
                => /\ frames[h].pc = "idle"
                   /\ frames[h].ret =
                        IF frames[h].metric_type = METRIC_TYPE_WEIGHT
                           /\ self.weight_info # NoneObject
                           /\ frames[h].metric \in DOMAIN self.weight_info
                        THEN self.weight_info[frames[h].metric]
                        ELSE None)

\* C18, reached: the weight was asked for after a fetch had cached an entry,
\* and the answer is the weight of that entry.
C18_Witness ==
    \E h \in Hosts :
        /\ Answered(h, METRIC_TYPE_WEIGHT) /\ frames[h].metric = "weight"
        /\ self.weight_info # NoneObject
        /\ frames[h].ret = "80" /\ self.weight_info.weight = "80"

\* C20: after every successful weight fetch the cached current entry
\* (weight_info, weight) is an entry of the returned history with the most
\* recent time_stamp among the entries whose weight is present and non-zero;
\* a zero or absent weight is never cached as the current value.
C20_WeightCacheNewestReading ==
    self.weight_info # NoneObject =>
        LET history == self.weight_history
            readings == {i \in 1..Len(history) : IsReading(history[i].weight)}
        IN \E i \in readings :
                /\ \A j \in readings : history[j].time_stamp <= history[i].time_stamp
                /\ self.weight_info = history[i]
                /\ self.weight = history[i].weight

\* ------------------------------------------------------------------ the lazy fetch of the metric accessor

\* the categories that fetch lazily, each with its fetcher
LazyCategories == {METRIC_TYPE_GIRTH, METRIC_TYPE_GIRTH_GOAL}

\* the data answers of the lazy-fetch specification: a failure, a list, and
\* an empty list
LazyDataAnswers(f) == {ConnError, Body("20000", "ok", Sample(f)), Body("20000", "ok", <<>>)}

NextLazy ==
    \/ \E h \in FetchHosts, c \in LazyCategories : CallMetric(h, c, "waist", None)
    \/ \E h \in FetchHosts, f \in {"list_girth", "list_girth_goal"} : CallFetcher(h, f)
    \/ \E p \in FetchHosts, ok \in BOOLEAN : RequestProbeDone(p, ok)
    \/ \E p \in FetchHosts, ok \in BOOLEAN : AuthProbeDone(p, ok)
    \/ \E p \in FetchHosts, r \in PollSignInAnswers : SignInDone(p, r)
    \/ \E p \in FetchHosts : \E r \in LazyDataAnswers(frames[p].fetcher) : SendDone(p, r)
    \/ \E p \in FetchHosts : SleepDone(p)

SpecLazy == InitPoll /\ [][NextLazy]_vars

\* the cache that category c answers from
CacheOf(c, client) == IF c = METRIC_TYPE_GIRTH THEN client.girth_info ELSE client.girth_goal

\* C19, the call: get_specific_metric for girth (girth goal) starts a fetch
\* of the list exactly when no fetch has populated the cache yet; otherwise
\* it has returned in the step of the call, without a request.
C19_LazyStep ==
    \A h \in Hosts :
        (obs'.uid # "none" /\ obs'.proc = h /\ frames'[h].metric_type \in LazyCategories)
            => IF CacheOf(frames'[h].metric_type, self) = NoneList
               THEN frames'[h].pc = "req_probe"
                    /\ frames'[h].fetcher = IF frames'[h].metric_type = METRIC_TYPE_GIRTH
                                            THEN "list_girth" ELSE "list_girth_goal"
               ELSE frames'[h].pc = "idle" /\ self' = self

\* C19: the girth and girth goal categories fetch first if and only if no
\* cache exists; a populated cache, an empty list included, is answered from
\* without a request; when the lazy fetch fails the call returns None.
C19_LazyFetchIffNoCache ==
    /\ [][C19_LazyStep]_vars
    /\ [](\A h \in Hosts, c \in LazyCategories :
            (Answered(h, c) /\ CacheOf(c, self) \in {NoneList, <<>>}) => frames[h].ret = None)

\* C19, reached: the girth category has been asked for on a cache that a
\* fetch had populated with an empty list, and the call returned None in its
\* own step.
C19_Witness ==
    \E h \in Hosts :
        /\ Answered(h, METRIC_TYPE_GIRTH) /\ obs.uid # "none" /\ obs.proc = h
        /\ self.girth_info = <<>> /\ self.last_updated_girth # None
        /\ frames[h].ret = None

\* ------------------------------------------------------------------ the poll cycle

\* the fetches of one poll cycle (lines 617-619): get_info, which is
\* get_measurements, list_girth and list_girth_goal
CycleFetches == {"get_measurements", "list_girth", "list_girth_goal"}

\* the poll loop task has come to the end of a cycle: it sleeps, or it has
\* left the loop at the sleep statement
CycleEnded(t) ==
    \/ frames[t].pc = "loop_sleep"
    \/ frames[t].pc = "done" /\ frames[t].exit = "error"

\* C21: at the end of every poll cycle the weight fetch, the girth fetch and
\* the girth goal fetch have all been invoked; a fetch of the cycle that fails
\* is followed, in the same cycle, by the fetches that come after it.
C21_AllThreeFetched ==
    /\ \A t \in Tasks : CycleEnded(t) => frames[t].invoked = CycleFetches
    /\ \A t \in Tasks :
            (obs.proc = t /\ obs.req \in Exceptions \cup {None})
                => \/ CycleEnded(t)
                   \/ /\ frames[t].pc = "req_probe"
                      /\ frames[t].invoked \in {{"get_measurements", "list_girth"}, CycleFetches}

\* C21, reached: the weight fetch of a cycle has just failed with an APIError
\* and the girth fetch of the same cycle has been invoked.
C21_Witness ==
    \E t \in Tasks :
        /\ obs.proc = t /\ obs.req = "APIError"
        /\ frames[t].pc = "req_probe" /\ frames[t].fetcher = "list_girth"
        /\ frames[t].invoked = {"get_measurements", "list_girth"}

\* ------------------------------------------------------------------ the cached resources

\* C22: for the weight, the girth list, the girth goal list and the growth
\* record, the last-updated timestamp is present only if a fetch of that
\* resource has succeeded and stored a value; a fetch that fails leaves the
\* timestamp as it was.
C22_TimestampOnlyAfterSuccess ==
    /\ self.last_updated_weight # None => self.weight_info # NoneObject
    /\ self.last_updated_girth # None => self.girth_info # NoneList
    /\ self.last_updated_girth_goal # None => self.girth_goal # NoneList
    /\ self.last_updated_growth_record # None => self.growth_record # NoneObject

\* ------------------------------------------------------------------ the in-progress flag

\* C23: whenever no call of auth is executing, auth_in_progress is False: every
\* way out of auth, by return or by exception, releases the flag.
C23_FlagReleasedOnEveryExit ==
    (\A p \in Procs : ~InAuth(p)) => ~self.auth_in_progress

\* ------------------------------------------------------------------ the token of a data request

\* C24: every data request goes out with the token the client holds at the
\* moment of sending: the first request after a sign-in and the request sent
\* again after a session-expired response carry the new token, not the one the
\* URL was built with.
C24_SentWithHeldToken == obs.sent # "none" => obs.sent = obs.held

\* ------------------------------------------------------------------ the Active flag

\* C25: is_polling_active is True exactly when a poll loop task is scheduled
\* and has not exited: an Active poller has a loop task that is alive, also
\* after the loop has ended in any way other than stop_polling, and a loop task
\* that is scheduled belongs to an Active poller.
C25_ActiveIffLoopScheduled ==
    /\ self.is_polling_active => \E t \in Tasks : Live(t)
    /\ (\E t \in Tasks : Scheduled(t)) => self.is_polling_active

\* ------------------------------------------------------------------ the end of _request

\* C26: a call of _request that ends without raising hands back a success
\* body; when session-expired responses have used up its retry budget it ends
\* with an exception, not with None.
C26_ReturnsBodyOrRaises == obs.req \in {"none", "body"} \cup Exceptions

\* ------------------------------------------------------------------ the metric accessor and the target user

\* the entries the vendor holds for user u: one girth, one girth goal
GirthsOf(u) == <<[waist_value |-> "80", time_stamp |-> 100, user_id |-> u]>>
GoalsOf(u) ==
    <<[girth_type |-> "waist", goal_value |-> "75", setup_goal_at |-> 100, user_id |-> u]>>

\* the data answers of the target-user specification: a failure, or the list
\* of the user that the URL of the request names (user_id={self.user_id},
\* lines 434 and 459)
TargetDataAnswers(p) ==
    {ConnError,
     Body("20000", "ok", IF frames[p].fetcher = "list_girth"
                         THEN GirthsOf(frames[p].url_user)
                         ELSE GoalsOf(frames[p].url_user))}

\* the host reads girths and girth goals, for the client's user and for the
\* users it names
NextTarget ==
    \/ \E h \in FetchHosts, c \in LazyCategories, u \in UserArgs : CallMetric(h, c, "waist", u)
    \/ \E p \in FetchHosts, ok \in BOOLEAN : RequestProbeDone(p, ok)
    \/ \E p \in FetchHosts, ok \in BOOLEAN : AuthProbeDone(p, ok)
    \/ \E p \in FetchHosts, r \in PollSignInAnswers : SignInDone(p, r)
    \/ \E p \in FetchHosts : \E r \in TargetDataAnswers(p) : SendDone(p, r)
    \/ \E p \in FetchHosts : SleepDone(p)

SpecTarget == InitPoll /\ [][NextTarget]_vars

\* the users whose entries the cache of category c holds
FetchedFor(c, client) ==
    LET list == Cached(CacheOf(c, client))
    IN {list[i].user_id : i \in DOMAIN list}

\* C27: once a get_specific_metric call has named a target user, every value
\* that get_specific_metric returns for girth or girth goal comes from a list
\* that was fetched for that user, never from a cache fetched for the user
\* before.
C27_ValueOfTargetUser ==
    \A h \in FetchHosts : \A c \in LazyCategories :
        (Answered(h, c) /\ frames[h].ret # None /\ self.user_id \in Supplied)
            => FetchedFor(c, self) = {self.user_id}

\* ------------------------------------------------------------------ the life of the token

\* the coroutines of the token specification: one host coroutine and the poll
\* loop tasks
TokenProcs == FetchHosts \cup Tasks

\* the sign-in answers of the token specification: a failure, a refusal that
\* carries a key, and success with either key
TokenSignInAnswers ==
    {ConnError, SignIn("40000", "busy", "k1", "u9")}
    \cup {SignIn("20000", "ok", k, "u9") : k \in Keys}

\* the data answers of the token specification: a failure, an expired
\* session, success with the list and success without it
TokenDataAnswers(f) ==
    {ConnError, Body("40302", "expired", NoneList), Body("20000", "ok", Sample(f)),
     Body("20000", "ok", NoneList)}

\* no poll loop task is alive
NoLoop == \A t \in Tasks : frames[t].pc \in {"free", "done"}

\* the host opens and closes the session, signs in, fetches, reads a metric
\* and starts and stops the poller.  It signs in, fetches and reads metrics
\* while no poll loop is alive, and starts the poller once, between its own
\* calls; open_session, close and stop_polling come at any time
NextToken ==
    \/ \E h \in FetchHosts : CallOpenSession(h)
    \/ \E h \in FetchHosts : CallClose(h)
    \/ \E h \in FetchHosts : NoLoop /\ CallValidate(h)
    \/ \E h \in FetchHosts : NoLoop /\ CallFetcher(h, "list_girth")
    \/ \E h \in FetchHosts : NoLoop /\ CallMetric(h, METRIC_TYPE_GIRTH, "waist", None)
    \/ /\ self.polling_task = Unset
       /\ \A h \in FetchHosts : frames[h].pc = "idle"
       /\ StartPolling
    \/ StopPolling
    \/ \E t \in Tasks : TaskStart(t)
    \/ \E p \in TokenProcs, ok \in BOOLEAN : RequestProbeDone(p, ok)
    \/ \E p \in TokenProcs, ok \in BOOLEAN : AuthProbeDone(p, ok)
    \/ \E p \in TokenProcs, r \in TokenSignInAnswers : SignInDone(p, r)
    \/ \E p \in TokenProcs : \E r \in TokenDataAnswers(frames[p].fetcher) : SendDone(p, r)
    \/ \E p \in TokenProcs : SleepDone(p)
    \/ \E t \in Tasks : CancelDeliver(t)

\* RenphoWeight("e", "pw")
InitToken ==
    /\ self = Construct("e", "pw", None, 60)
    /\ frames = [p \in Procs |-> IF p \in Hosts THEN IdleFrame("idle") ELSE IdleFrame("free")]
    /\ last = "none"
    /\ obs = NoObs

SpecToken == InitToken /\ [][NextToken]_vars

\* the sign-in POST was answered in the last step with status_code "20000",
\* status_message "ok" and a session key
SignInSucceeded ==
    /\ obs.on = "sign_in" /\ obs.got = "20000" /\ obs.msg = "ok" /\ obs.key \in Keys

\* C28, the step: a step that changes the token either stores the key of a
\* sign-in response with status "20000" and message "ok" that arrived in this
\* step, or makes the token absent at the start of a sign-in attempt or in
\* open_session; and after such a response the token is its key, unless a new
\* sign-in attempt has started since.
C28_TokenStep ==
    /\ (self'.token # self.token /\ self'.token # None)
            => (SignInSucceeded' /\ self'.token = obs'.key)
    /\ (self'.token # self.token /\ self'.token = None)
            => obs'.cleared \in {"attempt", "open_session"}
    /\ SignInSucceeded' => self'.token \in {obs'.key, None}

\* C28: the token changes only through a successful sign-in response, whose
\* key it then is, through the start of a sign-in attempt and through
\* open_session; no fetcher, metric accessor or poller operation sets it.
C28_TokenOnlyFromSignIn == [][C28_TokenStep]_vars

\* C28, reached: the second key has just been stored, by a sign-in that followed
\* an open_session.
C28_Witness ==
    /\ SignInSucceeded /\ obs.key = "k2" /\ self.token = "k2"
    /\ self.session = "open"

====
